---- MODULE Spec2Model ----
(***************************************************************************)
(* A model of googlegantt.py: GanttTask construction (date coercion, the   *)
(* four start/span combinations), GanttCategory equality, and GanttChart   *)
(* (add_task, start_date/end_date/duration, day_series, params,            *)
(* get_image).                                                             *)
(*                                                                         *)
(* Dates are proleptic Gregorian ordinals, as datetime.date.toordinal().   *)
(* A Python string that the code builds with join/% is a sequence of       *)
(* pieces (each piece a TLA+ string); its text is their concatenation.     *)
(* A colour is a sequence of one-character strings, since parse_color      *)
(* indexes and measures it.                                                *)
(***************************************************************************)
EXTENDS Integers, Sequences, FiniteSets, TLC

VARIABLES
    heap,     \* the GanttTask objects constructed so far; an object's id is its index
    tasks,    \* GanttChart.tasks: a sequence of object ids
    width,    \* GanttChart.width
    height,   \* GanttChart.height
    progress, \* GanttChart.progress: a date ordinal, or 0 for False
    last,     \* the most recent call: its inputs and what it returned or raised
    nmut      \* the number of attribute assignments the caller has made

vars == <<heap, tasks, width, height, progress, last, nmut>>

(***************************************************************************)
(* Bounds of the model.                                                    *)
(***************************************************************************)
MaxObjs == 2
MaxLen == 3
MaxChain == 3
MaxMut == 1

(***************************************************************************)
(* Program constants.                                                      *)
(***************************************************************************)
DEFAULT_COLOR == <<"4", "D", "8", "9", "F", "9", "F", "F">>
DefaultWidth == 600
DefaultHeight == 200
LabelPixels == 80

(***************************************************************************)
(* Sequence helpers.                                                       *)
(***************************************************************************)
RECURSIVE Concat(_)
Concat(chars) ==
    IF chars = <<>> THEN "" ELSE Head(chars) \o Concat(Tail(chars))

RECURSIVE Flatten(_)
Flatten(seqs) ==
    IF seqs = <<>> THEN <<>> ELSE Head(seqs) \o Flatten(Tail(seqs))

\* sep.join(items): the items with the separator piece between them
RECURSIVE Join(_, _)
Join(items, sep) ==
    IF items = <<>> THEN <<>>
    ELSE IF Len(items) = 1 THEN <<items[1]>>
    ELSE <<items[1], sep>> \o Join(Tail(items), sep)

Reverse(s) == [i \in 1..Len(s) |-> s[Len(s) + 1 - i]]

Min(S) == CHOOSE x \in S : \A y \in S : x <= y
Max(S) == CHOOSE x \in S : \A y \in S : x >= y

(***************************************************************************)
(* datetime.date: the calendar behind date(y, m, d), toordinal and         *)
(* strftime('%d/%m').                                                      *)
(***************************************************************************)
IsLeap(y) == (y % 4 = 0) /\ ((y % 100 # 0) \/ (y % 400 = 0))

DaysInMonth(y, m) ==
    IF m = 2 THEN (IF IsLeap(y) THEN 29 ELSE 28)
    ELSE IF m \in {4, 6, 9, 11} THEN 30 ELSE 31

DaysBeforeYear(y) ==
    (y - 1) * 365 + ((y - 1) \div 4) - ((y - 1) \div 100) + ((y - 1) \div 400)

RECURSIVE DaysBeforeMonth(_, _)
DaysBeforeMonth(y, m) ==
    IF m <= 1 THEN 0 ELSE DaysInMonth(y, m - 1) + DaysBeforeMonth(y, m - 1)

\* datetime.date(y, m, d) accepts the triple (it raises ValueError otherwise)
ValidYMD(y, m, d) ==
    /\ y \in 1..9999
    /\ m \in 1..12
    /\ d \in 1..DaysInMonth(y, m)

ToOrdinal(y, m, d) == DaysBeforeYear(y) + DaysBeforeMonth(y, m) + d

\* the year a day falls in: an estimate from the mean year length, corrected by one
YearOf(ord) ==
    LET y == ((ord * 400) \div 146097) + 1
    IN  IF DaysBeforeYear(y) >= ord THEN y - 1
        ELSE IF ord > DaysBeforeYear(y + 1) THEN y + 1
        ELSE y

\* <<month, day>> of the n-th day of year y, searching from month m
RECURSIVE MonthDayFrom(_, _, _)
MonthDayFrom(y, n, m) ==
    IF n <= DaysInMonth(y, m) THEN <<m, n>>
    ELSE MonthDayFrom(y, n - DaysInMonth(y, m), m + 1)

MonthDay(ord) ==
    LET y == YearOf(ord)
    IN  MonthDayFrom(y, ord - DaysBeforeYear(y), 1)

TwoDigits(n) == IF n < 10 THEN "0" \o ToString(n) ELSE ToString(n)

\* date.strftime('%d/%m')
StrfDayMonth(ord) ==
    LET md == MonthDay(ord)
    IN  TwoDigits(md[2]) \o "/" \o TwoDigits(md[1])

(***************************************************************************)
(* Values a caller passes for a date, a duration or a dependency.          *)
(***************************************************************************)
None == [kind |-> "none"]
DateVal(y, m, d) == [kind |-> "date", ord |-> ToOrdinal(y, m, d)]
TupleVal(y, m, d) == [kind |-> "tuple", y |-> y, m |-> m, d |-> d]
OtherVal == [kind |-> "other"]
IntVal(n) == [kind |-> "int", n |-> n]
TaskRef(id) == [kind |-> "task", id |-> id]

Returned(v) == [status |-> "ok", value |-> v]
Raised(e) == [status |-> "raise", exc |-> e]

\* as_date(d)
as_date(d) ==
    IF d.kind = "date" THEN Returned(d.ord)
    ELSE IF d.kind = "tuple"
         THEN IF ValidYMD(d.y, d.m, d.d)
              THEN Returned(ToOrdinal(d.y, d.m, d.d))
              ELSE Raised("ValueError")
    ELSE Raised("InvalidDateError")

(***************************************************************************)
(* Colours and categories.                                                 *)
(***************************************************************************)
Upper(ch) ==
    CASE ch = "a" -> "A" [] ch = "b" -> "B" [] ch = "c" -> "C"
      [] ch = "d" -> "D" [] ch = "e" -> "E" [] ch = "f" -> "F"
      [] OTHER -> ch

Doubled(color, n) == Flatten([i \in 1..n |-> <<color[i], color[i]>>])

\* parse_color(color); GanttCategory.__init__ repeats the same three steps
parse_color(color) ==
    LET c1 == IF Len(color) = 3 THEN Doubled(color, 3) \o <<"F", "F">> ELSE color
        c2 == IF Len(c1) = 4 THEN Doubled(c1, 4) ELSE c1
        c3 == IF Len(c2) = 6 THEN c2 \o <<"F", "F">> ELSE c2
    IN  [i \in 1..Len(c3) |-> Upper(c3[i])]

\* GanttCategory(title, color); oid is the identity of the new object
GanttCategory(oid, title, color) ==
    [oid |-> oid, title |-> title, color |-> parse_color(color)]

\* GanttCategory.__hash__: hash((title, color)), taken to be free of collisions
CategoryHash(c) == <<c.title, c.color>>

\* a variant without __cmp__: two categories are equal only as one object
CategoryEqByIdentity(a, b) == a.oid = b.oid

\* GanttCategory.__cmp__ == 0, which is what ==, != and dict lookup use
CategoryEq(a, b) == CategoryHash(a) = CategoryHash(b)

(***************************************************************************)
(* GanttTask.__init__.  A task object is a record; depends_on is the id of *)
(* the task it was built from, or 0 when the attribute was never set.      *)
(* A duration is a whole number of days, so int(duration) is the number    *)
(* itself.                                                                 *)
(***************************************************************************)
\* a variant that copies the dependency's start instead of its end
DependencyStart(dep) == dep.start_date

\* self.start_date = self.depends_on.end_date
StartFromDependency(dep) == dep.end_date

ResolveStart(h, a) ==
    IF a.depends_on.kind # "none"
    THEN IF a.depends_on.kind # "task"
         THEN Raised("InvalidTaskError")
         ELSE Returned(StartFromDependency(h[a.depends_on.id]))
    ELSE IF a.start_date.kind # "none"
         THEN LET d == as_date(a.start_date)
              IN  IF d.status = "raise" /\ d.exc = "InvalidDateError"
                  THEN Raised("InvalidTaskError")
                  ELSE d
    ELSE Raised("InvalidTaskError")

\* self.duration = duration; self.end_date = self.start_date + timedelta(days=int(duration))
SpanFromDuration(start, n) == [end_date |-> start + n, duration |-> n]

\* a variant that counts both end days
SpanFromEndDateInclusive(start, e) == [end_date |-> e, duration |-> e - start + 1]

\* self.end_date = as_date(end_date); self.duration = (self.end_date - self.start_date).days
SpanFromEndDate(start, e) == [end_date |-> e, duration |-> e - start]

ResolveSpan(start, a) ==
    IF a.duration.kind # "none"
    THEN Returned(SpanFromDuration(start, a.duration.n))
    ELSE IF a.end_date.kind # "none"
         THEN LET d == as_date(a.end_date)
              IN  IF d.status = "raise"
                  THEN (IF d.exc = "InvalidDateError" THEN Raised("InvalidTaskError") ELSE d)
                  ELSE Returned(SpanFromEndDate(start, d.value))
    ELSE Raised("InvalidTaskError")

\* self.category = kwargs.get('category', GanttCategory('', color))
TaskCategory(id, a) ==
    IF a.category.kind # "none" THEN a.category.cat
    ELSE GanttCategory(id, "",
                       parse_color(IF a.color.kind = "none" THEN DEFAULT_COLOR
                                   ELSE a.color.chars))

\* GanttTask(title, start_date, end_date, **kwargs) for the object that gets id `id`
GanttTask(h, id, a) ==
    LET s == ResolveStart(h, a)
    IN  IF s.status = "raise" THEN s
        ELSE LET sp == ResolveSpan(s.value, a)
             IN  IF sp.status = "raise" THEN sp
                 ELSE IF sp.value.end_date < s.value
                      THEN Raised("InvalidTaskError")
                      ELSE Returned([title |-> a.title,
                                     category |-> TaskCategory(id, a),
                                     start_date |-> s.value,
                                     end_date |-> sp.value.end_date,
                                     duration |-> sp.value.duration,
                                     depends_on |-> IF a.depends_on.kind = "task"
                                                    THEN a.depends_on.id ELSE 0])

(***************************************************************************)
(* What the callers of the model pass.                                     *)
(***************************************************************************)
NoColor == [kind |-> "none"]
ColorVal(chars) == [kind |-> "color", chars |-> chars]
NoCategory == [kind |-> "none"]
CategoryVal(cat) == [kind |-> "category", cat |-> cat]

DependsInputs(h) == {None, OtherVal} \cup {TaskRef(i) : i \in 1..Len(h)}

StartInputs ==
    {None, DateVal(2011, 2, 1), TupleVal(2011, 2, 3), TupleVal(2011, 2, 30), OtherVal}

EndInputs ==
    {None, DateVal(2011, 2, 2), TupleVal(2011, 13, 1), OtherVal}

DurationInputs == {None, IntVal(-1), IntVal(0), IntVal(2)}

\* every shape of GanttTask(...) call, the malformed ones included
TaskArgs(h) ==
    [title : {"Task"}, start_date : StartInputs, end_date : EndInputs,
     duration : DurationInputs, depends_on : DependsInputs(h),
     color : {NoColor}, category : {NoCategory}]

Call(op, args, status, exc, ret) ==
    [op |-> op, args |-> args, status |-> status, exc |-> exc, ret |-> ret]

(***************************************************************************)
(* The state after GanttChart('Test Chart', ...) and before any call.      *)
(***************************************************************************)
Init ==
    /\ heap = <<>>
    /\ tasks = <<>>
    /\ width = DefaultWidth
    /\ height = DefaultHeight
    /\ progress = as_date(TupleVal(2011, 2, 2)).value
    /\ last = Call("init", None, "ok", "", 0)
    /\ nmut = 0

(***************************************************************************)
(* A caller builds a task: t = GanttTask(...).                             *)
(***************************************************************************)
NewTask(a) ==
    /\ LET id == Len(heap) + 1
           r == GanttTask(heap, id, a)
       IN  IF r.status = "ok"
           THEN /\ heap' = Append(heap, r.value)
                /\ last' = Call("new", a, "ok", "", id)
           ELSE /\ heap' = heap
                /\ last' = Call("new", a, "raise", r.exc, 0)
    /\ UNCHANGED <<tasks, width, height, progress, nmut>>

(***************************************************************************)
(* A caller assigns to an attribute of a task it holds: t.end_date = ...   *)
(***************************************************************************)
AttrInputs ==
    {[field |-> "start_date", value |-> ToOrdinal(2011, 1, 15)],
     [field |-> "end_date", value |-> ToOrdinal(2011, 3, 1)],
     [field |-> "duration", value |-> 7]}

SetAttr(i, fv) ==
    /\ nmut < MaxMut
    /\ i \in 1..Len(heap)
    /\ heap' = [heap EXCEPT ![i] =
                   [f \in DOMAIN heap[i] |-> IF f = fv.field THEN fv.value ELSE heap[i][f]]]
    /\ nmut' = nmut + 1
    /\ last' = Call("setattr", [target |-> i, field |-> fv.field], "ok", "", 0)
    /\ UNCHANGED <<tasks, width, height, progress>>

NextTask == \E a \in TaskArgs(heap) : Len(heap) < MaxObjs /\ NewTask(a)

SpecTask == Init /\ [][NextTask]_vars

\* the calls of the GanttTask doctest: a task from two dates, tasks that depend on it
LinkArgs(h) ==
    [title : {"Task"}, start_date : {None, DateVal(2011, 2, 1)},
     end_date : {None, TupleVal(2011, 2, 6)},
     duration : {None, IntVal(10)},
     depends_on : {None} \cup {TaskRef(i) : i \in 1..Len(h)},
     color : {NoColor}, category : {NoCategory}]

NextLink ==
    \/ \E a \in LinkArgs(heap) : Len(heap) < MaxChain /\ NewTask(a)
    \/ \E i \in 1..MaxChain : \E fv \in AttrInputs : SetAttr(i, fv)

SpecLink == Init /\ [][NextLink]_vars

(***************************************************************************)
(* GanttChart: the derived dates.  ts is self.tasks, h the objects.        *)
(***************************************************************************)
TaskAt(h, ts, i) == h[ts[i]]

\* a variant of end_date() that reads the start dates
latest_start(h, ts) == Max({TaskAt(h, ts, i).start_date : i \in 1..Len(ts)})

\* GanttChart.start_date(): min() of an empty list raises ValueError
start_date(h, ts) == Min({TaskAt(h, ts, i).start_date : i \in 1..Len(ts)})

\* GanttChart.end_date()
end_date(h, ts) == Max({TaskAt(h, ts, i).end_date : i \in 1..Len(ts)})

\* GanttChart.duration()
duration(h, ts) == end_date(h, ts) - start_date(h, ts)

(***************************************************************************)
(* GanttChart.day_series(), consumed to its end.                           *)
(***************************************************************************)
\* (width, days) at which 1. / (float(width) / float(days) / 80.) is an integer in
\* exact arithmetic and falls just below it in double precision (days < 80)
RoundsBelow == {<<200, 15>>, <<200, 30>>, <<200, 60>>, <<600, 45>>}

\* int(1. / (float(self.width) / float(duration) / 80.))
FloatSkip(w, n) ==
    ((LabelPixels * n) \div w) - (IF <<w, n>> \in RoundsBelow THEN 1 ELSE 0)

\* self.width / duration > 80, on integers
SpacedOut(w, n) == (w \div n) > LabelPixels

day_series(h, ts, w) ==
    IF ts = <<>> THEN Raised("ValueError")
    ELSE LET start == start_date(h, ts)
             n == duration(h, ts) + 1
             skip_n_labels == IF SpacedOut(w, n) THEN 1 ELSE FloatSkip(w, n)
         IN  IF n >= 1 /\ skip_n_labels = 0
             THEN Raised("ZeroDivisionError")
             ELSE Returned([i \in 1..n |->
                               IF (i - 1) % skip_n_labels = 0
                               THEN StrfDayMonth(start + (i - 1))
                               ELSE " "])

(***************************************************************************)
(* uniquify(seq) with idfun the identity: `marker in seen` finds a key of  *)
(* equal hash that compares equal.                                         *)
(***************************************************************************)
Seen(result, item) == \E j \in 1..Len(result) : CategoryEq(result[j], item)

RECURSIVE UniquifyFrom(_, _)
UniquifyFrom(seq, result) ==
    IF seq = <<>> THEN result
    ELSE UniquifyFrom(Tail(seq),
                      IF Seen(result, Head(seq)) THEN result
                      ELSE Append(result, Head(seq)))

uniquify(seq) == UniquifyFrom(seq, <<>>)

(***************************************************************************)
(* GanttChart.params(raw_inputs).  The result maps each key to its text.   *)
(***************************************************************************)
ChartTitle == "Test Chart"

\* int(x / y) for a float quotient: truncation towards zero
TruncDiv(x, y) == IF x >= 0 THEN x \div y ELSE -((-x) \div y)

\* str() of the float x / y, kept as the quotient it prints
FloatStr(x, y) == ToString(x) \o "/" \o ToString(y)

\* (t.start_date - self.start_date()).days
TaskOffset(t, start) == t.start_date - start

\* a variant that skips the category test
SeriesSlotAlways(t, c) == ToString(t.duration)

\* zeroed_data[i]: '0', or str(t.duration) when not t.category != c
SeriesSlot(t, c) == IF ~CategoryEq(t.category, c) THEN "0" ELSE ToString(t.duration)

SelectTitled(cats) == SelectSeq(cats, LAMBDA c : c.title # "")

\* params.update(raw_inputs)
Update(p, raw) ==
    [k \in (DOMAIN p) \cup (DOMAIN raw) |-> IF k \in DOMAIN raw THEN raw[k] ELSE p[k]]

\* params['chd'] = ...
SetItem(p, key, v) == [k \in (DOMAIN p) \cup {key} |-> IF k = key THEN v ELSE p[k]]

params(h, ts, w, ht, prog, raw_inputs) ==
    IF ts = <<>> THEN Raised("ZeroDivisionError")
    ELSE IF duration(h, ts) = 0 THEN Raised("ZeroDivisionError")
    ELSE LET n == Len(ts)
             task_size == TruncDiv(ht - 50, n) - 4
             dur == duration(h, ts)
             start == start_date(h, ts)
             categories == uniquify([i \in 1..n |-> TaskAt(h, ts, i).category])
             colors == [j \in 1..Len(categories) |-> Concat(categories[j].color)]
             labels == day_series(h, ts, w)
         IN  IF labels.status = "raise" THEN labels
             ELSE LET
                 titled == SelectTitled(categories)
                 base ==
                     [cht |-> <<"bhs">>,
                      chco |-> <<"FFFFFF00,">> \o Join(colors, ","),
                      chtt |-> <<ChartTitle>>,
                      chs |-> <<ToString(w), "x", ToString(ht)>>,
                      chds |-> <<"0,", ToString(dur)>>,
                      chbh |-> <<ToString(task_size), ",4,0">>,
                      chg |-> <<FloatStr(100, dur), ",0">>,
                      chxt |-> <<"x,y">>,
                      chxl |-> <<"0:|">> \o Join(labels.value, "|") \o <<"|1:|">>
                               \o Join(Reverse([i \in 1..n |-> TaskAt(h, ts, i).title]), "|")]
                 legend ==
                     IF titled # <<>>
                     THEN SetItem(base, "chdl",
                                  <<"|">> \o Join([j \in 1..Len(titled) |-> titled[j].title], "|"))
                     ELSE base
                 marked ==
                     IF prog # 0 /\ prog >= start /\ prog <= end_date(h, ts)
                     THEN SetItem(legend, "chm",
                                  <<"r,", Concat(SubSeq(DEFAULT_COLOR, 1, 6)), "33,0,0,",
                                    FloatStr(prog - start, dur)>>)
                     ELSE legend
                 updated == Update(marked, raw_inputs)
                 offsets == [i \in 1..n |-> ToString(TaskOffset(TaskAt(h, ts, i), start))]
                 data == [j \in 1..Len(categories) |->
                            [i \in 1..n |-> SeriesSlot(TaskAt(h, ts, i), categories[j])]]
                 chd == <<"t:">> \o Join(offsets, ",") \o <<"|">>
                        \o Flatten(Join([j \in 1..Len(data) |-> Join(data[j], ",")], <<"|">>))
               IN  Returned(SetItem(updated, "chd", chd))

(***************************************************************************)
(* GanttChart.add_task: x is a task the caller already                     *)
(* holds (TaskRef) or the arguments of GanttTask (CallArgs).               *)
(***************************************************************************)
CallArgs(a) == [kind |-> "args", a |-> a]

\* a variant that inserts at the front
PushFront(ts, id) == <<id>> \o ts

\* self.tasks.append(task)
AppendTask(ts, id) == Append(ts, id)

add_task(x) ==
    /\ Len(tasks) < MaxLen
    /\ IF x.kind = "task"
       THEN /\ x.id \in 1..Len(heap)
            /\ tasks' = AppendTask(tasks, x.id)
            /\ heap' = heap
            /\ last' = Call("add_task", x, "ok", "", x.id)
       ELSE LET id == Len(heap) + 1
                r == GanttTask(heap, id, x.a)
            IN  IF r.status = "ok"
                THEN /\ heap' = Append(heap, r.value)
                     /\ tasks' = AppendTask(tasks, id)
                     /\ last' = Call("add_task", x, "ok", "", id)
                ELSE /\ heap' = heap
                     /\ tasks' = tasks
                     /\ last' = Call("add_task", x, "raise", r.exc, 0)
    /\ UNCHANGED <<width, height, progress, nmut>>

(***************************************************************************)
(* The read-only calls on the chart.                                       *)
(***************************************************************************)
\* gc.start_date(), gc.end_date(), gc.duration()
Derived ==
    /\ last' = IF tasks = <<>>
               THEN Call("derived", None, "raise", "ValueError", 0)
               ELSE Call("derived", None, "ok", "",
                         [start_date |-> start_date(heap, tasks),
                          end_date |-> end_date(heap, tasks),
                          duration |-> duration(heap, tasks)])
    /\ UNCHANGED <<heap, tasks, width, height, progress, nmut>>

\* list(gc.day_series())
DaySeries ==
    /\ LET r == day_series(heap, tasks, width)
       IN  last' = IF r.status = "ok"
                   THEN Call("day_series", None, "ok", "", r.value)
                   ELSE Call("day_series", None, "raise", r.exc, 0)
    /\ UNCHANGED <<heap, tasks, width, height, progress, nmut>>

\* gc.params(raw_inputs)
Params(raw) ==
    /\ LET r == params(heap, tasks, width, height, progress, raw)
       IN  last' = IF r.status = "ok"
                   THEN Call("params", raw, "ok", "", r.value)
                   ELSE Call("params", raw, "raise", r.exc, 0)
    /\ UNCHANGED <<heap, tasks, width, height, progress, nmut>>

(***************************************************************************)
(* GanttChart.get_image(save_path).  env is what the surroundings do: is   *)
(* PIL importable, and how urlopen ends ("ok", "HTTPError" for a response  *)
(* with an error status, "URLError" for no response at all).               *)
(***************************************************************************)
get_image(h, ts, w, ht, prog, env) ==
    IF ~env.pil THEN [status |-> "raise", exc |-> "Exception", value |-> "",
                      decoded |-> FALSE, saved |-> FALSE]
    ELSE LET p == params(h, ts, w, ht, prog, <<>>)
         IN  IF p.status = "raise"
             THEN [status |-> "raise", exc |-> p.exc, value |-> "",
                   decoded |-> FALSE, saved |-> FALSE]
             ELSE IF env.exchange = "HTTPError"
             THEN [status |-> "ok", exc |-> "", value |-> "None",
                   decoded |-> FALSE, saved |-> FALSE]
             ELSE IF env.exchange # "ok"
             THEN [status |-> "raise", exc |-> env.exchange, value |-> "",
                   decoded |-> FALSE, saved |-> FALSE]
             ELSE [status |-> "ok", exc |-> "", value |-> "Image",
                   decoded |-> TRUE, saved |-> env.save_path]

GetImage(env) ==
    /\ LET r == get_image(heap, tasks, width, height, progress, env)
       IN  last' = Call("get_image", env, r.status, r.exc,
                        [value |-> r.value, decoded |-> r.decoded, saved |-> r.saved])
    /\ UNCHANGED <<heap, tasks, width, height, progress, nmut>>

(***************************************************************************)
(* The calls made on a chart.                                              *)
(***************************************************************************)
Late == GanttCategory(-1, "Late", <<"c", "0", "0">>)
LateAgain == GanttCategory(-2, "Late", <<"C", "C", "0", "0", "0", "0">>)

ChartArgs(h) ==
    [title : {"Task"}, start_date : {DateVal(2011, 2, 1)}, end_date : {None},
     duration : {IntVal(5)}, depends_on : {None},
     color : {NoColor, ColorVal(<<"c", "0", "0">>)},
     category : {NoCategory, CategoryVal(LateAgain)}]
    \cup
    [title : {"Task"}, start_date : {None, TupleVal(2011, 2, 3)},
     end_date : {DateVal(2011, 2, 6)}, duration : {None, IntVal(0)},
     depends_on : {None} \cup {TaskRef(i) : i \in 1..Len(h)},
     color : {NoColor}, category : {CategoryVal(Late)}]

RawInputs ==
    {<<>>,
     [k \in {"chd"} |-> <<"t:1|2">>],
     [k \in {"cht", "chco", "chm", "chf"} |-> <<"raw">>]}

EnvInputs ==
    [pil : BOOLEAN, exchange : {"ok", "HTTPError", "URLError"}, save_path : BOOLEAN]

Next ==
    \/ \E a \in ChartArgs(heap) : Len(heap) < MaxObjs /\ NewTask(a)
    \/ \E i \in 1..MaxObjs : add_task(TaskRef(i))
    \/ \E a \in ChartArgs(heap) : Len(heap) < MaxObjs /\ add_task(CallArgs(a))
    \/ Derived
    \/ \E raw \in RawInputs : Params(raw)

Spec == Init /\ [][Next]_vars

NextImage ==
    \/ \E a \in ChartArgs(heap) : Len(heap) < MaxObjs /\ add_task(CallArgs(a))
    \/ \E env \in EnvInputs : GetImage(env)

SpecImage == Init /\ [][NextImage]_vars

(***************************************************************************)
(* Charts of several widths, and their day labels.                         *)
(***************************************************************************)
Widths == {DefaultWidth, 481, 200}

InitSeries ==
    /\ heap = <<>>
    /\ tasks = <<>>
    /\ width \in Widths
    /\ height = DefaultHeight
    /\ progress = 0
    /\ last = Call("init", None, "ok", "", 0)
    /\ nmut = 0

NextSeries ==
    \/ \E a \in ChartArgs(heap) : Len(heap) < MaxObjs /\ add_task(CallArgs(a))
    \/ DaySeries

SpecSeries == InitSeries /\ [][NextSeries]_vars

(***************************************************************************)
(* Reading a text back: the pieces between separators.                     *)
(***************************************************************************)
RECURSIVE SplitFrom(_, _, _, _)
SplitFrom(pieces, sep, cur, acc) ==
    IF pieces = <<>> THEN Append(acc, cur)
    ELSE IF Head(pieces) = sep
         THEN SplitFrom(Tail(pieces), sep, <<>>, Append(acc, cur))
         ELSE SplitFrom(Tail(pieces), sep, Append(cur, Head(pieces)), acc)

Split(pieces, sep) == SplitFrom(pieces, sep, <<>>, <<>>)

\* the date a date value or a valid (year, month, day) tuple denotes
GivenDate(v) == IF v.kind = "date" THEN v.ord ELSE ToOrdinal(v.y, v.m, v.d)

Coercible(v) == v.kind = "date" \/ (v.kind = "tuple" /\ ValidYMD(v.y, v.m, v.d))

\* the indices of the tasks whose (title, color) category occurs there first
FirstOccurrences ==
    SelectSeq([i \in 1..Len(tasks) |-> i],
              LAMBDA i : \A j \in 1..(i - 1) :
                  \/ heap[tasks[j]].category.title # heap[tasks[i]].category.title
                  \/ heap[tasks[j]].category.color # heap[tasks[i]].category.color)

SameCategory(i, j) ==
    /\ heap[tasks[i]].category.title = heap[tasks[j]].category.title
    /\ heap[tasks[i]].category.color = heap[tasks[j]].category.color

(***************************************************************************)
(* C1: every task that GanttTask(...) returns has end_date >= start_date   *)
(* and duration = end_date - start_date in days; built from start_date D   *)
(* and duration N it ends at D + N with duration N; built from start_date  *)
(* D and end_date E its duration is E - D.                                 *)
(***************************************************************************)
C1_TaskDatesConsistent ==
    (last.op = "new" /\ last.status = "ok") =>
        LET t == heap[last.ret]
            a == last.args
        IN  /\ t.end_date >= t.start_date
            /\ t.duration = t.end_date - t.start_date
            /\ (a.depends_on.kind = "none" /\ a.duration.kind = "int") =>
                   /\ t.end_date = GivenDate(a.start_date) + a.duration.n
                   /\ t.duration = a.duration.n
            /\ (a.depends_on.kind = "none" /\ a.duration.kind = "none") =>
                   t.duration = GivenDate(a.end_date) - GivenDate(a.start_date)

\* a task built from a dependency and an end_date, with days between the two
C1_Witness ==
    /\ last.op = "new"
    /\ last.status = "ok"
    /\ last.args.depends_on.kind = "task"
    /\ last.args.duration.kind = "none"
    /\ heap[last.ret].duration > 0

(***************************************************************************)
(* C2: a task built with depends_on=T starts at T.end_date as it is at     *)
(* that moment, and no later step changes a task other than the one the    *)
(* caller assigns to: a change of T reaches none of its dependents.        *)
(***************************************************************************)
C2_OneShotCopy ==
    [][/\ (last'.op = "new" /\ last'.status = "ok" /\ last'.args.depends_on.kind = "task") =>
              /\ Len(heap') = Len(heap) + 1
              /\ heap'[last'.ret].start_date = heap[last'.args.depends_on.id].end_date
       /\ \A i \in 1..Len(heap) :
              heap'[i] # heap[i] =>
                  /\ last'.op = "setattr"
                  /\ last'.args.target = i
                  /\ \A j \in (1..Len(heap)) \ {i} : heap'[j] = heap[j]]_vars

\* T1 <- T2 <- T3, and T1.end_date was assigned after T2 was built from it
C2_Witness ==
    /\ Len(heap) = 3
    /\ heap[2].depends_on = 1
    /\ heap[3].depends_on = 2
    /\ last.op = "setattr"
    /\ last.args.target = 1
    /\ last.args.field = "end_date"
    /\ heap[2].start_date # heap[1].end_date
    /\ heap[3].start_date = heap[2].end_date

(***************************************************************************)
(* C3: every malformed GanttTask(...) call raises InvalidTaskError and     *)
(* returns no task.  Malformed: no depends_on and no start_date; no        *)
(* duration and no end_date; a depends_on that is no task; a start_date or *)
(* end_date in use that is no date and no valid (year, month, day) tuple;  *)
(* an end before the start.                                                *)
(***************************************************************************)
Malformed(a) ==
    LET noStart == a.depends_on.kind = "none" /\ a.start_date.kind = "none"
        noSpan == a.duration.kind = "none" /\ a.end_date.kind = "none"
        badDependency == a.depends_on.kind \notin {"none", "task"}
        badStart == /\ a.depends_on.kind = "none"
                    /\ a.start_date.kind # "none"
                    /\ ~Coercible(a.start_date)
        badEnd == /\ a.duration.kind = "none"
                  /\ a.end_date.kind # "none"
                  /\ ~Coercible(a.end_date)
        wellTyped == ~(noStart \/ noSpan \/ badDependency \/ badStart \/ badEnd)
        s == IF a.depends_on.kind = "task" THEN heap[a.depends_on.id].end_date
             ELSE GivenDate(a.start_date)
        e == IF a.duration.kind = "int" THEN s + a.duration.n ELSE GivenDate(a.end_date)
    IN  ~wellTyped \/ e < s

C3_MalformedRaisesInvalidTaskError ==
    (last.op = "new" /\ Malformed(last.args)) =>
        /\ last.status = "raise"
        /\ last.exc = "InvalidTaskError"
        /\ last.ret = 0

(***************************************************************************)
(* C4: when get_image reaches the HTTP exchange and the exchange fails,    *)
(* with an error status or with no response at all, get_image returns None *)
(* and neither decodes nor saves an image.                                 *)
(***************************************************************************)
C4_TransportFailureReturnsNone ==
    (/\ last.op = "get_image"
     /\ last.args.pil
     /\ tasks # <<>>
     /\ \E i, j \in 1..Len(tasks) : heap[tasks[i]].start_date < heap[tasks[j]].end_date
     /\ last.args.exchange \in {"HTTPError", "URLError"}) =>
        /\ last.status = "ok"
        /\ last.ret.value = "None"
        /\ ~last.ret.decoded
        /\ ~last.ret.saved

(***************************************************************************)
(* C5: every key of raw_inputs maps, in the result of params(raw_inputs),  *)
(* to the value raw_inputs gives it.                                       *)
(***************************************************************************)
C5_OverridesWin ==
    (last.op = "params" /\ last.status = "ok") =>
        \A k \in DOMAIN last.args : last.ret[k] = last.args[k]

(***************************************************************************)
(* C6: on a chart with a task, day_series() ends without an error and has  *)
(* duration()+1 entries: the DD/MM label of the day at every skip_n-th     *)
(* index and a space elsewhere, skip_n being 1 when width/(duration()+1)   *)
(* exceeds 80 and floor(80*(duration()+1)/width) otherwise, never 0.       *)
(***************************************************************************)
C6_DaySeriesLabels ==
    (last.op = "day_series" /\ tasks # <<>>) =>
        LET s == Min({heap[tasks[i]].start_date : i \in 1..Len(tasks)})
            e == Max({heap[tasks[i]].end_date : i \in 1..Len(tasks)})
            n == e - s + 1
            skip_n == IF width > LabelPixels * n THEN 1 ELSE (LabelPixels * n) \div width
        IN  /\ last.status = "ok"
            /\ skip_n # 0
            /\ Len(last.ret) = n
            /\ \A i \in 1..n :
                   last.ret[i] = IF (i - 1) % skip_n = 0 THEN StrfDayMonth(s + i - 1) ELSE " "

(***************************************************************************)
(* C7: the colour list of params() is the transparent placeholder and then *)
(* one colour per distinct (title, color) category of the tasks, in the    *)
(* order of first occurrence, whatever objects carry them.                 *)
(***************************************************************************)
C7_ColorsPerDistinctCategory ==
    (last.op = "params" /\ last.status = "ok" /\ "chco" \notin DOMAIN last.args) =>
        LET chco == last.ret.chco
            colors == Split(Tail(chco), ",")
            first == FirstOccurrences
        IN  /\ chco[1] = "FFFFFF00,"
            /\ Len(colors) = Len(first)
            /\ \A k \in 1..Len(first) :
                   colors[k] = <<Concat(heap[tasks[first[k]]].category.color)>>

\* two category objects with one title and colour, and a third task list entry
C7_Witness ==
    /\ last.op = "params"
    /\ last.status = "ok"
    /\ "chco" \notin DOMAIN last.args
    /\ Len(tasks) = 3
    /\ \E i, j \in 1..Len(tasks) :
           /\ i < j
           /\ heap[tasks[i]].category.oid # heap[tasks[j]].category.oid
           /\ SameCategory(i, j)

(***************************************************************************)
(* C8: the series data of params() is an offsets block and then one block  *)
(* per distinct category in order of first occurrence; every block has one *)
(* slot per task; offsets[i] is tasks[i].start_date - start_date() in      *)
(* days; slot i holds tasks[i].duration in the block of the task's own     *)
(* category and 0 in every other block.                                    *)
(***************************************************************************)
C8_SeriesData ==
    (last.op = "params" /\ last.status = "ok") =>
        LET chd == last.ret.chd
            blocks == Split(Tail(chd), "|")
            slots == [b \in 1..Len(blocks) |-> Split(blocks[b], ",")]
            first == FirstOccurrences
            n == Len(tasks)
            s == Min({heap[tasks[i]].start_date : i \in 1..n})
        IN  /\ chd[1] = "t:"
            /\ Len(blocks) = 1 + Len(first)
            /\ \A b \in 1..Len(blocks) : Len(slots[b]) = n
            /\ \A i \in 1..n :
                   /\ slots[1][i] = <<ToString(heap[tasks[i]].start_date - s)>>
                   /\ \A k \in 1..Len(first) :
                          slots[1 + k][i] =
                              IF SameCategory(first[k], i)
                              THEN <<ToString(heap[tasks[i]].duration)>>
                              ELSE <<"0">>

\* two categories, and a task that starts after the chart does
C8_Witness ==
    /\ last.op = "params"
    /\ last.status = "ok"
    /\ Len(tasks) = 3
    /\ Len(FirstOccurrences) = 2
    /\ \E i, j \in 1..Len(tasks) :
           /\ heap[tasks[i]].start_date < heap[tasks[j]].start_date
           /\ heap[tasks[i]].duration > 0
           /\ heap[tasks[j]].duration > 0

(***************************************************************************)
(* C9: an add_task call that succeeds appends one task at the end of the   *)
(* list, leaves the earlier entries as they were and returns the appended  *)
(* task (the one passed, or the one built); one whose construction raises  *)
(* leaves the list as it was.                                              *)
(***************************************************************************)
C9_AddTaskAppends ==
    [][last'.op = "add_task" =>
          IF last'.status = "ok"
          THEN /\ Len(tasks') = Len(tasks) + 1
               /\ \A i \in 1..Len(tasks) : tasks'[i] = tasks[i]
               /\ tasks'[Len(tasks')] = last'.ret
               /\ IF last'.args.kind = "task"
                  THEN last'.ret = last'.args.id /\ heap' = heap
                  ELSE last'.ret = Len(heap) + 1 /\ Len(heap') = Len(heap) + 1
          ELSE tasks' = tasks /\ heap' = heap]_vars

\* a third task, built by add_task, put after two different ones
C9_Witness ==
    /\ last.op = "add_task"
    /\ last.status = "ok"
    /\ Len(tasks) = 3
    /\ tasks[1] # tasks[2]
    /\ tasks[3] = last.ret

(***************************************************************************)
(* C10: on a chart with a task, start_date() is the least task start,      *)
(* end_date() the greatest task end, duration() their distance in days,    *)
(* all of the task list as it is now; and every task's bar lies within     *)
(* 0..duration().                                                          *)
(***************************************************************************)
C10_DerivedValuesAndBars ==
    (last.op = "derived" /\ tasks # <<>>) =>
        LET n == Len(tasks)
            r == last.ret
        IN  /\ last.status = "ok"
            /\ \E i \in 1..n : heap[tasks[i]].start_date = r.start_date
            /\ \A i \in 1..n : heap[tasks[i]].start_date >= r.start_date
            /\ \E i \in 1..n : heap[tasks[i]].end_date = r.end_date
            /\ \A i \in 1..n : heap[tasks[i]].end_date <= r.end_date
            /\ r.duration = r.end_date - r.start_date
            /\ \A i \in 1..n :
                   LET t == heap[tasks[i]]
                   IN  /\ 0 <= t.start_date - r.start_date
                       /\ (t.start_date - r.start_date) + t.duration <= r.duration

\* the task added last neither starts first nor ends last
C10_Witness ==
    /\ last.op = "derived"
    /\ last.status = "ok"
    /\ Len(tasks) >= 2
    /\ heap[tasks[Len(tasks)]].start_date > last.ret.start_date
    /\ heap[tasks[Len(tasks)]].end_date < last.ret.end_date

====
